---- MODULE Spec2Model ----
(***************************************************************************)
(* Sprite (src/lib/src/sprite.ts): a fixed-size grid of Color objects with *)
(* a palette and a symmetry flag.                                          *)
(*                                                                         *)
(* JavaScript objects have identity, and several properties of Sprite are  *)
(* about which objects are shared with the caller.  The model therefore    *)
(* keeps a heap: Color objects, Array<Color> objects and [number, number]  *)
(* tuples live in three stores and are referred to by their address (their *)
(* position in the store); address 0 stands for undefined.  A Sprite holds *)
(* the addresses of its _dim, _array and _pallet.  The caller holds the    *)
(* objects it passed to the constructor (given) and the object it obtained *)
(* or made last (held), and may mutate them.                               *)
(*                                                                         *)
(* Every method of Sprite is an operator from a heap to a record           *)
(* [st, err, ret]: the heap after the call, the error thrown ("" for none) *)
(* and the value returned.  An action performs one call made by the caller *)
(* and then drops the objects nothing refers to any more (Normalize), as   *)
(* the garbage collector does.                                             *)
(***************************************************************************)
EXTENDS Integers, Sequences, FiniteSets, TLC

VARIABLES colors, arrays, dims, sprites, given, held, born, last

vars == <<colors, arrays, dims, sprites, given, held, born, last>>

---------------------------------------------------------------------------
(* Bounds of the model *)

\* dimension components offered to the constructor are 0..MaxDim
MaxDim == 2
\* a palette offered to the constructor has at most MaxPal entries
MaxPal == 2
\* number of Sprite instances alive at once (the constructed one and copies)
MaxSprites == 2
\* the sprites own at most MaxColors Color objects, pixels and palette
\* entries together; an array offered to the constructor has at most
\* MaxColors + 1 entries
MaxColors == 4
\* sizes requested from the svg methods are 0..MaxSize
MaxSize == 2

---------------------------------------------------------------------------
(* Color: the external colour type, channels <<r, g, b, a>> *)

\* new Color(0, 0, 0, 1): opaque black
Black == <<0, 0, 0, 1>>
\* a colour whose channels all differ
Tint == <<1, 2, 3, 1>>
ColorValues == {Black, Tint}

\* the address of the static object Color.BLACK
BLACK == 1

toArray(v) == v
toRgba(v) == <<"rgba", v[1], v[2], v[3], v[4]>>
alphaByte(v) == v[4] * 255
redByte(v) == v[1]
greenByte(v) == v[2]
blueByte(v) == v[3]
\* the integer AARRGGBB, written as its four bytes from the most significant
toInt(v) == <<alphaByte(v), redByte(v), greenByte(v), blueByte(v)>>

\* Validator.positiveInteger
positiveInteger(n) == n \in Nat /\ n > 0

---------------------------------------------------------------------------
(* The heap *)

Heap == [colors |-> colors, arrays |-> arrays, dims |-> dims,
         sprites |-> sprites, given |-> given, held |-> held]

NoGiven == [dim |-> 0, array |-> 0]
NoHeld == [kind |-> "none", ref |-> 0]

\* the sequence s without its undefined entries
RECURSIVE Defined(_)
Defined(s) == IF s = <<>> THEN <<>>
              ELSE IF Head(s) = 0 THEN Defined(Tail(s))
              ELSE <<Head(s)>> \o Defined(Tail(s))

\* the sequence s with only the first occurrence of each entry
RECURSIVE Uniq(_)
Uniq(s) == IF s = <<>> THEN <<>>
           ELSE LET r == Uniq(SubSeq(s, 1, Len(s) - 1))
                    x == s[Len(s)]
                IN IF \E i \in 1..Len(r) : r[i] = x THEN r ELSE Append(r, x)

Pos(s, x) == IF x = 0 THEN 0 ELSE CHOOSE i \in 1..Len(s) : s[i] = x

RECURSIVE Flatten(_)
Flatten(ss) == IF ss = <<>> THEN <<>> ELSE Head(ss) \o Flatten(Tail(ss))

\* The heap with unreachable objects dropped and the live ones renumbered in
\* the order in which the sprites and the caller reach them.  Addresses are
\* not observable in JavaScript, so this changes nothing a program can see.
Normalize(st) ==
    LET heldOf(k) == IF st.held.kind = k THEN <<st.held.ref>> ELSE <<>>
        dOrd == Uniq(Defined([i \in 1..Len(st.sprites) |-> st.sprites[i].dim]
                             \o <<st.given.dim>> \o heldOf("dim")))
        aOrd == Uniq(Defined(Flatten([i \in 1..Len(st.sprites) |->
                                 <<st.sprites[i].array, st.sprites[i].pallet>>])
                             \o <<st.given.array>> \o heldOf("array")))
        cOrd == Uniq(Defined(<<BLACK>>
                             \o Flatten([i \in 1..Len(aOrd) |-> st.arrays[aOrd[i]]])
                             \o heldOf("color")))
    IN  [colors  |-> [i \in 1..Len(cOrd) |-> st.colors[cOrd[i]]],
         arrays  |-> [i \in 1..Len(aOrd) |->
                        [j \in 1..Len(st.arrays[aOrd[i]]) |->
                            Pos(cOrd, st.arrays[aOrd[i]][j])]],
         dims    |-> [i \in 1..Len(dOrd) |-> st.dims[dOrd[i]]],
         sprites |-> [i \in 1..Len(st.sprites) |->
                        [dim    |-> Pos(dOrd, st.sprites[i].dim),
                         array  |-> Pos(aOrd, st.sprites[i].array),
                         pallet |-> Pos(aOrd, st.sprites[i].pallet),
                         hs     |-> st.sprites[i].hs]],
         given   |-> [dim   |-> Pos(dOrd, st.given.dim),
                      array |-> Pos(aOrd, st.given.array)],
         held    |-> [kind |-> st.held.kind,
                      ref  |-> IF st.held.kind = "dim" THEN Pos(dOrd, st.held.ref)
                               ELSE IF st.held.kind = "array" THEN Pos(aOrd, st.held.ref)
                               ELSE IF st.held.kind = "color" THEN Pos(cOrd, st.held.ref)
                               ELSE 0]]

\* the caller's step ends in heap st
Commit(st) ==
    LET n == IF st = Heap THEN st ELSE Normalize(st)
    IN  /\ colors' = n.colors
        /\ arrays' = n.arrays
        /\ dims' = n.dims
        /\ sprites' = n.sprites
        /\ given' = n.given
        /\ held' = n.held

\* color.copy(), for every entry of the sequence of addresses a: the heap
\* with the new Color objects, and their addresses
CopyColors(st, a) ==
    [st  |-> [st EXCEPT !.colors = @ \o [i \in 1..Len(a) |-> st.colors[a[i]]]],
     ret |-> [i \in 1..Len(a) |-> Len(st.colors) + i]]

\* a new array object holding the addresses a
NewArray(st, a) ==
    [st |-> [st EXCEPT !.arrays = Append(@, a)], ret |-> Len(st.arrays) + 1]

\* a new tuple object holding d
NewDim(st, d) ==
    [st |-> [st EXCEPT !.dims = Append(@, d)], ret |-> Len(st.dims) + 1]

\* new Color objects with the values vs (a sequence)
NewColors(st, vs) ==
    [st  |-> [st EXCEPT !.colors = @ \o vs],
     ret |-> [i \in 1..Len(vs) |-> Len(st.colors) + i]]

---------------------------------------------------------------------------
(* Sprite *)

Ok(st, ret) == [st |-> st, err |-> "", ret |-> ret]
Throw(st, e) == [st |-> st, err |-> e, ret |-> 0]

\* this._dim, this._array, this._pallet of sprite s: the values stored
Dim(st, s) == st.dims[st.sprites[s].dim]
Arr(st, s) == st.arrays[st.sprites[s].array]
Pal(st, s) == st.arrays[st.sprites[s].pallet]

\* a[i] of a JavaScript array, i counted from 0: undefined past the end
At(a, i) == IF i >= 0 /\ i < Len(a) THEN a[i + 1] ELSE 0

\* a[i] = r of a JavaScript array: writing past the end leaves holes
Store(a, i, r) ==
    IF i < Len(a) THEN [a EXCEPT ![i + 1] = r]
    ELSE a \o [k \in 1..(i - Len(a)) |-> 0] \o <<r>>

\* pallet.filter(value => value !== Color.BLACK): a new array of the same objects
trimPallet(st, pallet) ==
    NewArray(st, SelectSeq(st.arrays[pallet], LAMBDA r : r # BLACK))

\* the constructor refusing only an array that is too short
constructorAtLeast(st, dim, array, pallet, horizontalSymmetry, colorFill) ==
    LET d == st.dims[dim]
    IN  IF ~positiveInteger(d[1]) \/ ~positiveInteger(d[2])
        THEN Throw(st, "ValidationError")
        ELSE
        LET c0 == IF colorFill = 0 THEN NewColors(st, <<Black>>)
                  ELSE [st |-> st, ret |-> <<colorFill>>]
            color == c0.ret[1]
            a0 == IF array # 0 THEN [st |-> c0.st, ret |-> array]
                  ELSE LET cs == CopyColors(c0.st, [i \in 1..(d[1] * d[2]) |-> color])
                       IN  NewArray(cs.st, cs.ret)
            arr == a0.ret
        IN  IF d[1] * d[2] > Len(a0.st.arrays[arr])
            THEN Throw(st, "DimensionMismatch")
            ELSE
            LET p0 == IF pallet # 0 THEN [st |-> a0.st, ret |-> pallet]
                      ELSE NewArray(a0.st, <<>>)
                p1 == trimPallet(p0.st, p0.ret)
            IN  Ok([p1.st EXCEPT !.sprites =
                       Append(@, [dim |-> dim, array |-> arr, pallet |-> p1.ret,
                                  hs |-> horizontalSymmetry])],
                   Len(st.sprites) + 1)

\* new Sprite({dim, array, pallet, horizontalSymmetry, colorFill}); dim is the
\* address of a tuple, array and pallet of arrays and colorFill of a Color,
\* each 0 when the parameter is left out
constructor(st, dim, array, pallet, horizontalSymmetry, colorFill) ==
    LET d == st.dims[dim]
    IN  IF ~positiveInteger(d[1]) \/ ~positiveInteger(d[2])
        THEN Throw(st, "ValidationError")
        ELSE
        LET c0 == IF colorFill = 0 THEN NewColors(st, <<Black>>)
                  ELSE [st |-> st, ret |-> <<colorFill>>]
            color == c0.ret[1]
            a0 == IF array # 0 THEN [st |-> c0.st, ret |-> array]
                  ELSE LET cs == CopyColors(c0.st, [i \in 1..(d[1] * d[2]) |-> color])
                       IN  NewArray(cs.st, cs.ret)
            arr == a0.ret
        IN  IF d[1] * d[2] # Len(a0.st.arrays[arr])
            THEN Throw(st, "DimensionMismatch")
            ELSE
            LET p0 == IF pallet # 0 THEN [st |-> a0.st, ret |-> pallet]
                      ELSE NewArray(a0.st, <<>>)
                p1 == trimPallet(p0.st, p0.ret)
            IN  Ok([p1.st EXCEPT !.sprites =
                       Append(@, [dim |-> dim, array |-> arr, pallet |-> p1.ret,
                                  hs |-> horizontalSymmetry])],
                   Len(st.sprites) + 1)

\* get dim(): [...this._dim]
getDim(st, s) ==
    LET n == NewDim(st, Dim(st, s)) IN Ok(n.st, n.ret)

\* [...a].map(color => color.copy()) of the array a
CopyArray(st, a) ==
    IF \E i \in 1..Len(a) : a[i] = 0 THEN Throw(st, "TypeError")
    ELSE LET cs == CopyColors(st, a)
             n == NewArray(cs.st, cs.ret)
         IN  Ok(n.st, n.ret)

\* get array() returning this._array itself
getArrayItself(st, s) == Ok(st, st.sprites[s].array)

\* get array()
getArray(st, s) == CopyArray(st, Arr(st, s))

\* get pallet()
getPallet(st, s) == CopyArray(st, Pal(st, s))

\* get horizontalSymmetry()
getHorizontalSymmetry(st, s) == st.sprites[s].hs

\* withinBounds with the upper bounds off by one
withinBoundsInclusive(st, s, x, y) ==
    x >= 0 /\ x <= Dim(st, s)[1] /\ y >= 0 /\ y <= Dim(st, s)[2]

withinBounds(st, s, x, y) ==
    x >= 0 /\ x < Dim(st, s)[1] /\ y >= 0 /\ y < Dim(st, s)[2]

\* copy() handing the sprite's own objects to the constructor
copyShallow(st, s) ==
    constructor(st, st.sprites[s].dim, st.sprites[s].array, st.sprites[s].pallet,
                getHorizontalSymmetry(st, s), 0)

\* copy(): a new Sprite from what the getters return
copy(st, s) ==
    LET d == getDim(st, s)
        a == getArray(d.st, s)
    IN  IF a.err # "" THEN Throw(st, a.err)
        ELSE LET p == getPallet(a.st, s)
             IN  IF p.err # "" THEN Throw(st, p.err)
                 ELSE constructor(p.st, d.ret, a.ret, p.ret,
                                  getHorizontalSymmetry(st, s), 0)

\* this._array[y * this._dim[0] + x].copy()
CopyCell(st, s, x, y) ==
    LET r == At(Arr(st, s), y * Dim(st, s)[1] + x)
    IN  IF r = 0 THEN Throw(st, "TypeError")
        ELSE LET c == CopyColors(st, <<r>>) IN Ok(c.st, c.ret[1])

\* StoreCell with the axes exchanged: the entry x * height + y
StoreCellTransposed(st, s, x, y, color) ==
    LET c == CopyColors(st, <<color>>)
    IN  [c.st EXCEPT !.arrays[st.sprites[s].array] =
            Store(@, x * Dim(st, s)[2] + y, c.ret[1])]

\* this._array[y * this._dim[0] + x] = color.copy()
StoreCell(st, s, x, y, color) ==
    LET c == CopyColors(st, <<color>>)
    IN  [c.st EXCEPT !.arrays[st.sprites[s].array] =
            Store(@, y * Dim(st, s)[1] + x, c.ret[1])]

setPixelAt(st, s, x, y, color) ==
    IF ~withinBounds(st, s, x, y) THEN Throw(st, "IndexOutOfBounds")
    ELSE Ok(StoreCell(st, s, x, y, color), 0)

pixelAt(st, s, x, y) ==
    IF ~withinBounds(st, s, x, y) THEN Throw(st, "IndexOutOfBounds")
    ELSE CopyCell(st, s, x, y)

pixelAtChecked(st, s, x, y) ==
    IF ~withinBounds(st, s, x, y) THEN Ok(st, 0)
    ELSE CopyCell(st, s, x, y)

setPixelAtChecked(st, s, x, y, color) ==
    IF ~withinBounds(st, s, x, y) THEN Ok(st, FALSE)
    ELSE Ok(StoreCell(st, s, x, y, color), TRUE)

\* the first error among the results rs (a sequence), "" when none failed
RECURSIVE FirstErr(_)
FirstErr(rs) == IF rs = <<>> THEN ""
                ELSE IF Head(rs).err # "" THEN Head(rs).err
                ELSE FirstErr(Tail(rs))

\* arrayValues(): [...this._array].map(color => color.toArray())
arrayValues(st, s) ==
    LET a == Arr(st, s)
    IN  IF \E i \in 1..Len(a) : a[i] = 0 THEN Throw(st, "TypeError")
        ELSE Ok(st, [i \in 1..Len(a) |-> toArray(st.colors[a[i]])])

\* matrix(): indexed by x, then by y, each cell read with pixelAt
matrix(st, s) ==
    LET w == Dim(st, s)[1]
        h == Dim(st, s)[2]
        px == [i \in 1..w |-> [j \in 1..h |-> pixelAt(st, s, i - 1, j - 1)]]
        e == FirstErr(Flatten(px))
    IN  IF e # "" THEN Throw(st, e)
        ELSE Ok(st, [i \in 1..w |-> [j \in 1..h |->
                        toArray(px[i][j].st.colors[px[i][j].ret])]])

\* svgExact with the loops exchanged: y outside, x inside
svgExactByRows(st, s, width, height) ==
    LET w == Dim(st, s)[1]
        h == Dim(st, s)[2]
        px == [j \in 1..h |-> [i \in 1..w |-> pixelAt(st, s, i - 1, j - 1)]]
        e == FirstErr(Flatten(px))
    IN  IF e # "" THEN Throw(st, e)
        ELSE Ok(st, [width   |-> width,
                     height  |-> height,
                     viewBox |-> <<0, 0, w, h>>,
                     rects   |-> Flatten([j \in 1..h |-> [i \in 1..w |->
                                    [x |-> i - 1, y |-> j - 1,
                                     fill |-> toRgba(px[j][i].st.colors[px[j][i].ret])]]])])

\* svgExact(width, height): the markup as its parts, the rect elements in
\* the order they are appended.  unit and parameters are copied into the
\* header as they come and are left out.
svgExact(st, s, width, height) ==
    LET w == Dim(st, s)[1]
        h == Dim(st, s)[2]
        px == [i \in 1..w |-> [j \in 1..h |-> pixelAt(st, s, i - 1, j - 1)]]
        e == FirstErr(Flatten(px))
    IN  IF e # "" THEN Throw(st, e)
        ELSE Ok(st, [width   |-> width,
                     height  |-> height,
                     viewBox |-> <<0, 0, w, h>>,
                     rects   |-> Flatten([i \in 1..w |-> [j \in 1..h |->
                                    [x |-> i - 1, y |-> j - 1,
                                     fill |-> toRgba(px[i][j].st.colors[px[i][j].ret])]]])])

\* the width svgWidth passes on: width + dim[0] - (width % dim[0])
RoundWidth(st, s, width) == width + Dim(st, s)[1] - (width % Dim(st, s)[1])

\* the height svgHeight passes on: height + dim[1] - (height % dim[1])
RoundHeight(st, s, height) == height + Dim(st, s)[2] - (height % Dim(st, s)[2])

\* svgWidth(width): h = (dim[1] / dim[0]) * w, w being a multiple of dim[0]
svgWidth(st, s, width) ==
    LET w == RoundWidth(st, s, width)
        h == (Dim(st, s)[2] * w) \div Dim(st, s)[1]
    IN  svgExact(st, s, w, h)

\* svgHeight(height): w = (dim[0] / dim[1]) * h, h being a multiple of dim[1]
svgHeight(st, s, height) ==
    LET h == RoundHeight(st, s, height)
        w == (Dim(st, s)[1] * h) \div Dim(st, s)[2]
    IN  svgExact(st, s, w, h)

svg(st, s, width, height) ==
    svgExact(st, s, RoundWidth(st, s, width), RoundHeight(st, s, height))

svgScale(st, s, pixelSize) ==
    svgExact(st, s, Dim(st, s)[1] * pixelSize, Dim(st, s)[2] * pixelSize)

\* data(): a Uint32Array, forEach leaving 0 where the array has a hole
data(st, s) ==
    LET a == Arr(st, s)
    IN  Ok(st, [i \in 1..Len(a) |->
                  IF a[i] = 0 THEN <<0, 0, 0, 0>> ELSE toInt(st.colors[a[i]])])

\* bytes(): a Uint8Array, four bytes for each entry of this._array
bytes(st, s) ==
    LET a == Arr(st, s)
        byte(c, k) == IF k = 0 THEN alphaByte(c)
                      ELSE IF k = 1 THEN redByte(c)
                      ELSE IF k = 2 THEN greenByte(c)
                      ELSE greenByte(c)
    IN  IF \E i \in 1..Len(a) : a[i] = 0 THEN Throw(st, "TypeError")
        ELSE Ok(st, [j \in 1..(4 * Len(a)) |->
                       byte(st.colors[a[((j - 1) \div 4) + 1]], (j - 1) % 4) % 256])

---------------------------------------------------------------------------
(* The caller *)

(* The caller makes one call at a time: last is "idle" between calls, and    *)
(* after a call it holds the call, its arguments, the error thrown and the   *)
(* value returned, until the caller goes on (Return).  An object a call      *)
(* returned, and a Color the caller made to pass it to a setter, is held by  *)
(* the caller until then, and the caller may change it (MutateHeld).        *)

Sprites == 1..Len(sprites)
Coords == -1..MaxDim
Sizes == 0..MaxSize

IdleCall == [op |-> "idle", s |-> 0, args |-> <<>>, err |-> "", ret |-> 0]
Idle == last = IdleCall

\* the Color objects owned by the sprites of st
Owned(st) ==
    LET n[i \in 0..Len(st.sprites)] ==
            IF i = 0 THEN 0 ELSE n[i - 1] + Len(Arr(st, i)) + Len(Pal(st, i))
    IN  n[Len(st.sprites)]

\* what the constructor may be given for array, pallet and colorFill
GridArgs == {[some |-> FALSE, vals |-> <<>>]}
            \cup {[some |-> TRUE, vals |-> v] :
                    v \in UNION {[1..n -> ColorValues] : n \in 0..(MaxColors + 1)}}
PalEntries == {"Color.BLACK", "black", "tint"}
PalArgs == {[some |-> FALSE, vals |-> <<>>]}
           \cup {[some |-> TRUE, vals |-> v] :
                   v \in UNION {[1..n -> PalEntries] : n \in 0..MaxPal}}
FillArgs == {[some |-> FALSE, val |-> Black]}
            \cup {[some |-> TRUE, val |-> v] : v \in ColorValues}

Init ==
    /\ colors = <<Black>>
    /\ arrays = <<>>
    /\ dims = <<>>
    /\ sprites = <<>>
    /\ given = NoGiven
    /\ held = NoHeld
    /\ born = <<>>
    /\ last = IdleCall

\* the call op(args) on sprite s ended as r says
Report(op, s, args, r) ==
    last' = [op |-> op, s |-> s, args |-> args, err |-> r.err, ret |-> r.ret]

\* the result r with the colours of the returned array in place of its address
ValuesOf(r) ==
    IF r.err # "" THEN r
    ELSE [r EXCEPT !.ret = [i \in 1..Len(r.st.arrays[r.ret]) |->
                               r.st.colors[r.st.arrays[r.ret][i]]]]

\* the result r with the colour of the returned Color in place of its
\* address, <<>> for undefined
ValueOf(r) ==
    IF r.err # "" THEN r
    ELSE [r EXCEPT !.ret = IF r.ret = 0 THEN <<>> ELSE r.st.colors[r.ret]]

\* the caller keeps the array a getter returned
KeepArray(r) ==
    IF r.err # "" THEN r.st
    ELSE [r.st EXCEPT !.held = [kind |-> "array", ref |-> r.ret]]

\* the caller keeps the Color a read returned
KeepColor(r) ==
    IF r.err # "" \/ r.ret = 0 THEN r.st
    ELSE [r.st EXCEPT !.held = [kind |-> "color", ref |-> r.ret]]

\* The caller builds the arguments and calls the constructor.  With keep it
\* goes on holding the dim and array objects it passed.
Build(keep, w, h, hs, grid, pal, fill) ==
    LET d  == NewDim(Heap, <<w, h>>)
        gc == NewColors(d.st, grid.vals)
        g  == IF grid.some THEN NewArray(gc.st, gc.ret)
              ELSE [st |-> d.st, ret |-> 0]
        pv == SelectSeq(pal.vals, LAMBDA e : e # "Color.BLACK")
        pc == NewColors(g.st, [i \in 1..Len(pv) |->
                                 IF pv[i] = "black" THEN Black ELSE Tint])
        pa == [i \in 1..Len(pal.vals) |->
                 IF pal.vals[i] = "Color.BLACK" THEN BLACK
                 ELSE pc.ret[Cardinality({j \in 1..i : pal.vals[j] # "Color.BLACK"})]]
        p  == IF pal.some THEN NewArray(pc.st, pa)
              ELSE [st |-> g.st, ret |-> 0]
        f  == IF fill.some THEN NewColors(p.st, <<fill.val>>)
              ELSE [st |-> p.st, ret |-> <<0>>]
        r  == constructor(f.st, d.ret, g.ret, p.ret, hs, f.ret[1])
    IN  /\ Commit(IF r.err = "" /\ keep
                  THEN [r.st EXCEPT !.given = [dim |-> d.ret, array |-> g.ret]]
                  ELSE r.st)
        /\ born' = IF r.err # "" THEN born ELSE <<<<w, h>>>>
        /\ Report("constructor", 0,
                  <<w, h, IF grid.some THEN Len(grid.vals) ELSE -1>>, r)

Construct ==
    /\ Idle
    /\ sprites = <<>>
    /\ \E w \in 0..MaxDim, h \in 0..MaxDim, hs \in BOOLEAN,
          grid \in GridArgs, pal \in PalArgs, fill \in FillArgs :
        /\ w * h + Len(pal.vals) <= MaxColors
        /\ Build(FALSE, w, h, hs, grid, pal, fill)

\* the constructor called with dim and array only, by a caller that keeps both
ConstructKeeping ==
    /\ Idle
    /\ sprites = <<>>
    /\ \E w \in 0..MaxDim, h \in 0..MaxDim, grid \in GridArgs :
        /\ w * h <= MaxColors
        /\ Build(TRUE, w, h, FALSE, grid,
                 [some |-> FALSE, vals |-> <<>>], [some |-> FALSE, val |-> Black])

Copy ==
    /\ Idle
    /\ Len(sprites) < MaxSprites
    /\ \E s \in Sprites :
        /\ Owned(Heap) + Len(Arr(Heap, s)) + Len(Pal(Heap, s)) <= MaxColors
        /\ LET r == copy(Heap, s)
           IN  /\ Commit(r.st)
               /\ born' = IF r.err # "" THEN born ELSE Append(born, Dim(Heap, s))
               /\ Report("copy", s, <<>>, r)

GetDim ==
    /\ Idle
    /\ \E s \in Sprites :
        LET r == getDim(Heap, s)
        IN  /\ Commit([r.st EXCEPT !.held = [kind |-> "dim", ref |-> r.ret]])
            /\ Report("dim", s, <<>>, Ok(r.st, r.st.dims[r.ret]))
            /\ UNCHANGED born

GetArray ==
    /\ Idle
    /\ \E s \in Sprites :
        LET r == getArray(Heap, s)
        IN  /\ Commit(KeepArray(r))
            /\ Report("array", s, <<>>, ValuesOf(r))
            /\ UNCHANGED born

GetPallet ==
    /\ Idle
    /\ \E s \in Sprites :
        LET r == getPallet(Heap, s)
        IN  /\ Commit(KeepArray(r))
            /\ Report("pallet", s, <<>>, ValuesOf(r))
            /\ UNCHANGED born

GetHorizontalSymmetry ==
    /\ Idle
    /\ \E s \in Sprites :
        /\ Commit(Heap)
        /\ Report("horizontalSymmetry", s, <<>>, Ok(Heap, getHorizontalSymmetry(Heap, s)))
        /\ UNCHANGED born

PixelAt ==
    /\ Idle
    /\ \E s \in Sprites, x \in Coords, y \in Coords :
        LET r == pixelAt(Heap, s, x, y)
        IN  /\ Commit(KeepColor(r))
            /\ Report("pixelAt", s, <<x, y>>, ValueOf(r))
            /\ UNCHANGED born

PixelAtChecked ==
    /\ Idle
    /\ \E s \in Sprites, x \in Coords, y \in Coords :
        LET r == pixelAtChecked(Heap, s, x, y)
        IN  /\ Commit(KeepColor(r))
            /\ Report("pixelAtChecked", s, <<x, y>>, ValueOf(r))
            /\ UNCHANGED born

\* the caller makes a Color of value v for a setter, and keeps it
ColorArg(v) ==
    LET c == NewColors(Heap, <<v>>)
    IN  [st  |-> [c.st EXCEPT !.held = [kind |-> "color", ref |-> c.ret[1]]],
         ret |-> c.ret[1]]

SetPixelAt ==
    /\ Idle
    /\ \E s \in Sprites, x \in Coords, y \in Coords, v \in ColorValues :
        LET r == setPixelAt(ColorArg(v).st, s, x, y, ColorArg(v).ret)
        IN  /\ Commit(r.st)
            /\ Report("setPixelAt", s, <<x, y, v>>, r)
            /\ UNCHANGED born

SetPixelAtChecked ==
    /\ Idle
    /\ \E s \in Sprites, x \in Coords, y \in Coords, v \in ColorValues :
        LET r == setPixelAtChecked(ColorArg(v).st, s, x, y, ColorArg(v).ret)
        IN  /\ Commit(r.st)
            /\ Report("setPixelAtChecked", s, <<x, y, v>>, r)
            /\ UNCHANGED born

ArrayValues ==
    /\ Idle
    /\ \E s \in Sprites :
        LET r == arrayValues(Heap, s)
        IN  Commit(r.st) /\ Report("arrayValues", s, <<>>, r) /\ UNCHANGED born

Matrix ==
    /\ Idle
    /\ \E s \in Sprites :
        LET r == matrix(Heap, s)
        IN  Commit(r.st) /\ Report("matrix", s, <<>>, r) /\ UNCHANGED born

Data ==
    /\ Idle
    /\ \E s \in Sprites :
        LET r == data(Heap, s)
        IN  Commit(r.st) /\ Report("data", s, <<>>, r) /\ UNCHANGED born

Bytes ==
    /\ Idle
    /\ \E s \in Sprites :
        LET r == bytes(Heap, s)
        IN  Commit(r.st) /\ Report("bytes", s, <<>>, r) /\ UNCHANGED born

SvgExact ==
    /\ Idle
    /\ \E s \in Sprites, width \in Sizes, height \in Sizes :
        LET r == svgExact(Heap, s, width, height)
        IN  Commit(r.st) /\ Report("svgExact", s, <<width, height>>, r) /\ UNCHANGED born

SvgWidth ==
    /\ Idle
    /\ \E s \in Sprites, width \in Sizes :
        LET r == svgWidth(Heap, s, width)
        IN  Commit(r.st) /\ Report("svgWidth", s, <<width>>, r) /\ UNCHANGED born

SvgHeight ==
    /\ Idle
    /\ \E s \in Sprites, height \in Sizes :
        LET r == svgHeight(Heap, s, height)
        IN  Commit(r.st) /\ Report("svgHeight", s, <<height>>, r) /\ UNCHANGED born

Svg ==
    /\ Idle
    /\ \E s \in Sprites, width \in Sizes, height \in Sizes :
        LET r == svg(Heap, s, width, height)
        IN  Commit(r.st) /\ Report("svg", s, <<width, height>>, r) /\ UNCHANGED born

SvgScale ==
    /\ Idle
    /\ \E s \in Sprites, pixelSize \in Sizes :
        LET r == svgScale(Heap, s, pixelSize)
        IN  Commit(r.st) /\ Report("svgScale", s, <<pixelSize>>, r) /\ UNCHANGED born

\* The ways the caller can change an object it has a reference to: the heaps
\* that result from writing a component of the tuple at address ref, ...
DimWrites(st, ref) ==
    {[st EXCEPT !.dims[ref][i] = v] : i \in 1..2, v \in 1..MaxDim}

\* ... from removing the last entry of the array at ref or changing the
\* value of one of its Color objects (Color.BLACK is left as it is), ...
ArrayWrites(st, ref) ==
    {[st EXCEPT !.arrays[ref] = SubSeq(@, 1, Len(@) - 1)] : k \in 1..Len(st.arrays[ref])}
    \cup {[st EXCEPT !.colors[st.arrays[ref][i]] = v] :
            i \in {j \in 1..Len(st.arrays[ref]) : st.arrays[ref][j] \notin {0, BLACK}},
            v \in ColorValues}

\* ... and from changing the value of the Color at ref
ColorWrites(st, ref) ==
    {[st EXCEPT !.colors[ref] = v] : v \in ColorValues}

\* the caller changes the object it holds, and lets go of it
MutateHeld ==
    /\ held.kind # "none"
    /\ \E st \in (IF held.kind = "dim" THEN DimWrites(Heap, held.ref)
                  ELSE IF held.kind = "array" THEN ArrayWrites(Heap, held.ref)
                  ELSE ColorWrites(Heap, held.ref)) :
        /\ st # Heap
        /\ Commit([st EXCEPT !.held = NoHeld])
        /\ Report("mutate held", 0, <<held.kind>>, Ok(st, 0))
        /\ UNCHANGED born

\* the caller changes an object it passed to the constructor
MutateGiven ==
    /\ Idle
    /\ given # NoGiven
    /\ \E st \in DimWrites(Heap, given.dim)
                 \cup (IF given.array # 0 THEN ArrayWrites(Heap, given.array) ELSE {}) :
        /\ st # Heap
        /\ Commit(st)
        /\ Report("mutate given", 0, <<>>, Ok(st, 0))
        /\ UNCHANGED born

\* the caller goes on, letting go of what the call returned
Return ==
    /\ ~Idle
    /\ Commit([Heap EXCEPT !.held = NoHeld])
    /\ last' = IdleCall
    /\ UNCHANGED born

\* the calls a caller can make on the sprites it has
Calls ==
    \/ Copy
    \/ GetDim
    \/ GetArray
    \/ GetPallet
    \/ GetHorizontalSymmetry
    \/ PixelAt
    \/ PixelAtChecked
    \/ SetPixelAt
    \/ SetPixelAtChecked
    \/ ArrayValues
    \/ Matrix
    \/ Data
    \/ Bytes
    \/ SvgExact
    \/ SvgWidth
    \/ SvgHeight
    \/ Svg
    \/ SvgScale
    \/ MutateHeld
    \/ Return

\* a caller that lets go of the constructor's arguments
Next == Construct \/ Calls

Spec == Init /\ [][Next]_vars

\* every sprite still has the dimension it was constructed with and an
\* array of that many entries
Intact ==
    \A s \in Sprites :
        /\ Dim(Heap, s) = born[s]
        /\ Len(Arr(Heap, s)) = born[s][1] * born[s][2]

\* A caller that keeps the dim and array it passed to the constructor and
\* may change them.  It makes no further calls once a sprite is not Intact.
NextKept ==
    \/ ConstructKeeping
    \/ MutateGiven
    \/ (Intact /\ Calls)
    \/ (~Intact /\ Return)

SpecKept == Init /\ [][NextKept]_vars

---------------------------------------------------------------------------
(* What a caller can see of a sprite *)

\* the colours held by the array a of st, 0 where it has a hole
Values(st, a) == [i \in 1..Len(a) |-> IF a[i] = 0 THEN <<>> ELSE st.colors[a[i]]]

DimOf(s) == Dim(Heap, s)
GridOf(s) == Values(Heap, Arr(Heap, s))
PalletOf(s) == Values(Heap, Pal(Heap, s))
FlagOf(s) == sprites[s].hs

\* dimension, grid, palette and flag of every sprite
View == [s \in Sprites |-> <<DimOf(s), GridOf(s), PalletOf(s), FlagOf(s)>>]

\* (x, y) lies on the grid of sprite s
OnGrid(s, x, y) == x \in 0..(DimOf(s)[1] - 1) /\ y \in 0..(DimOf(s)[2] - 1)

PixelOps == {"pixelAt", "pixelAtChecked", "setPixelAt", "setPixelAtChecked"}
SetOps == {"setPixelAt", "setPixelAtChecked"}

---------------------------------------------------------------------------
(* Properties *)

\* C1: off the grid pixelAt and setPixelAt fail with the index-out-of-bounds
\* error, pixelAtChecked returns undefined and setPixelAtChecked returns
\* false without failing, and no sprite changes; on the grid none of the
\* four fails and setPixelAtChecked returns true.
C1_Call ==
    \A s \in Sprites, x \in Coords, y \in Coords :
        (last'.op \in PixelOps /\ last'.s = s /\ last'.args[1] = x /\ last'.args[2] = y) =>
            IF OnGrid(s, x, y)
            THEN /\ last'.err = ""
                 /\ last'.op = "setPixelAtChecked" => last'.ret = TRUE
            ELSE /\ last'.op \in {"pixelAt", "setPixelAt"} =>
                        last'.err = "IndexOutOfBounds"
                 /\ last'.op = "pixelAtChecked" =>
                        last'.err = "" /\ last'.ret = <<>>
                 /\ last'.op = "setPixelAtChecked" =>
                        last'.err = "" /\ last'.ret = FALSE
                 /\ View' = View

C1_BoundsChecked == [][C1_Call]_vars

\* all four calls have been made off the grid, on either side of it
C1_Witness ==
    /\ last.op = "setPixelAtChecked"
    /\ last.ret = FALSE
    /\ last.args[1] = DimOf(last.s)[1]
    /\ last.args[2] = 0

\* C2: a setter call on the grid replaces the entry y * width + x of the
\* array and nothing else: pixelAt(x, y) then returns the colour passed,
\* pixelAt returns what it returned before everywhere else, and dimension,
\* array length, palette and flag are as before.
C2_Call ==
    \A s \in Sprites, x \in Coords, y \in Coords, c \in ColorValues :
        (/\ last'.op \in SetOps
         /\ last'.s = s
         /\ last'.args = <<x, y, c>>
         /\ OnGrid(s, x, y)) =>
            LET Read(i, j) == ValueOf(pixelAt(Heap, s, i, j))
            IN  /\ GridOf(s)' = [GridOf(s) EXCEPT ![y * DimOf(s)[1] + x + 1] = c]
                /\ Read(x, y)'.err = "" /\ Read(x, y)'.ret = c
                /\ \A i \in 0..(DimOf(s)[1] - 1), j \in 0..(DimOf(s)[2] - 1) :
                       <<i, j>> # <<x, y>> =>
                           /\ Read(i, j)'.err = Read(i, j).err
                           /\ Read(i, j)'.ret = Read(i, j).ret
                /\ DimOf(s)' = DimOf(s)
                /\ PalletOf(s)' = PalletOf(s)
                /\ FlagOf(s)' = FlagOf(s)
                /\ \A t \in Sprites \ {s} : View'[t] = View[t]

C2_SetReplacesOneCell == [][C2_Call]_vars

\* a pixel of a 2 x 2 sprite whose row and column differ has been written
C2_Witness ==
    /\ last.op = "setPixelAt"
    /\ last.err = ""
    /\ DimOf(last.s) = <<2, 2>>
    /\ last.args = <<1, 0, Tint>>
    /\ GridOf(last.s) = <<Black, Tint, Black, Black>>

\* C3: every sprite keeps the positive integer width and height it was
\* constructed with, and its array has exactly width * height entries,
\* whatever the caller does with the objects it passed in or got back.
C3_DimensionAndLengthFixed ==
    \A s \in Sprites :
        /\ DimOf(s) = born[s]
        /\ positiveInteger(DimOf(s)[1]) /\ positiveInteger(DimOf(s)[2])
        /\ Len(Arr(Heap, s)) = DimOf(s)[1] * DimOf(s)[2]

\* C4: copy() returns a new sprite with the dimension, grid, palette and flag
\* of the original and leaves the sprites there are as they were; a setter
\* call on one sprite leaves every other sprite as it was.
C4_Call ==
    \A s \in Sprites :
        /\ (last'.op = "copy" /\ last'.s = s) =>
              /\ last'.err = ""
              /\ Len(sprites') = Len(sprites) + 1
              /\ View'[Len(sprites) + 1] = View[s]
              /\ \A t \in Sprites : View'[t] = View[t]
        /\ (last'.op \in SetOps /\ last'.s = s) =>
              \A t \in Sprites \ {s} : View'[t] = View[t]

C4_CopyEqualAndIndependent == [][C4_Call]_vars

\* a sprite and its copy differ after a write to one of them
C4_Witness ==
    /\ Len(sprites) = 2
    /\ last.op \in SetOps
    /\ last.err = ""
    /\ DimOf(1) = DimOf(2)
    /\ GridOf(1) # GridOf(2)

\* the value of the object the caller holds, in heap st
HeldValue(st) ==
    IF st.held.kind = "dim" THEN st.dims[st.held.ref]
    ELSE IF st.held.kind = "array" THEN Values(st, st.arrays[st.held.ref])
    ELSE IF st.held.kind = "color" THEN st.colors[st.held.ref]
    ELSE <<>>

\* one Color of every colour value there is
SomeColors == {CHOOSE c \in 1..Len(colors) : colors[c] = v : v \in {colors[c] : c \in 1..Len(colors)}}

\* no setPixelAt call changes the object the caller holds
HeldStable ==
    held.kind # "none" =>
        LET before == HeldValue(Heap)
        IN  \A s \in Sprites, x \in Coords, y \in Coords, c \in SomeColors :
                HeldValue(setPixelAt(Heap, s, x, y, c).st) = before

\* C5: changing an object obtained from dim, array, pallet, pixelAt or
\* pixelAtChecked, or the Color passed to a setter, changes no sprite; and
\* a setter call changes no object obtained before.
C5_Call ==
    /\ last'.op = "mutate held" => View' = View
    /\ HeldStable'

C5_NoAliasing == [][C5_Call]_vars

\* the caller has changed an array that the array getter returned
C5_Witness ==
    /\ last.op = "mutate held"
    /\ last.args = <<"array">>
    /\ \E s \in Sprites : Len(GridOf(s)) > 1

\* C6: for positive width and height the constructor fails with the
\* dimension-mismatch error and makes no sprite when it is given an array of
\* another length than width * height, the empty array included; given an
\* array of that length, or none, it makes the sprite.
C6_Call ==
    \A w \in 1..MaxDim, h \in 1..MaxDim, n \in -1..(MaxColors + 1) :
        (last'.op = "constructor" /\ last'.args = <<w, h, n>>) =>
            IF n \notin {-1, w * h}
            THEN /\ last'.err = "DimensionMismatch"
                 /\ sprites' = sprites
            ELSE /\ last'.err = ""
                 /\ Len(sprites') = Len(sprites) + 1
                 /\ \A k \in 1..MaxSprites :
                        k = Len(sprites) + 1 =>
                            /\ DimOf(k)' = <<w, h>>
                            /\ Len(GridOf(k)') = w * h

C6_LengthChecked == [][C6_Call]_vars

\* the constructor has refused an empty array
C6_Witness ==
    /\ last.op = "constructor"
    /\ last.err = "DimensionMismatch"
    /\ last.args[3] = 0
    /\ sprites = <<>>

\* C7: the palette of a sprite has no opaque black entry.
C7_NoBlackInPalette ==
    \A s \in Sprites : \A i \in 1..Len(PalletOf(s)) : PalletOf(s)[i] # Black

\* the least multiple of d that is at least n
LeastMultiple(d, n) == CHOOSE m \in n..(n + d) : m % d = 0 /\ \A k \in n..(m - 1) : k % d # 0

\* C8: svgWidth passes to svgExact the least multiple of the grid width that
\* is at least the width asked for, svgHeight the least multiple of the grid
\* height that is at least the height asked for, and svg both.
C8_RoundsUpToLeastMultiple ==
    /\ (last.op = "svgWidth" /\ last.err = "") =>
          last.ret.width = LeastMultiple(DimOf(last.s)[1], last.args[1])
    /\ (last.op = "svgHeight" /\ last.err = "") =>
          last.ret.height = LeastMultiple(DimOf(last.s)[2], last.args[1])
    /\ (last.op = "svg" /\ last.err = "") =>
          /\ last.ret.width = LeastMultiple(DimOf(last.s)[1], last.args[1])
          /\ last.ret.height = LeastMultiple(DimOf(last.s)[2], last.args[2])

\* C9: svgExact on a w x h sprite gives w * h rect elements, the one at
\* position x * h + y placed at (x, y) and filled with the colour of entry
\* y * w + x of the array, and the viewBox 0, 0, w, h; it changes no sprite.
C9_Call ==
    \A s \in Sprites :
        (last'.op = "svgExact" /\ last'.s = s) =>
            LET w == DimOf(s)[1]
                h == DimOf(s)[2]
                out == last'.ret
            IN  /\ last'.err = ""
                /\ Len(out.rects) = w * h
                /\ \A x \in 0..(w - 1), y \in 0..(h - 1) :
                       out.rects[x * h + y + 1] =
                           [x |-> x, y |-> y, fill |-> toRgba(GridOf(s)[y * w + x + 1])]
                /\ out.viewBox = <<0, 0, w, h>>
                /\ out.width = last'.args[1] /\ out.height = last'.args[2]
                /\ View' = View

C9_SvgExactRects == [][C9_Call]_vars

\* a 2 x 2 sprite whose entries 1 and 2 differ has been rendered
C9_Witness ==
    /\ last.op = "svgExact"
    /\ DimOf(last.s) = <<2, 2>>
    /\ GridOf(last.s)[2] # GridOf(last.s)[3]

\* C10: bytes() gives four bytes for every entry of the array, in the order
\* of the array: its alpha, red, green and blue byte.
C10_BytesAreARGB ==
    (last.op = "bytes" /\ last.err = "") =>
        LET g == GridOf(last.s)
        IN  /\ Len(last.ret) = 4 * DimOf(last.s)[1] * DimOf(last.s)[2]
            /\ \A i \in 1..Len(g) :
                   SubSeq(last.ret, 4 * i - 3, 4 * i) =
                       <<alphaByte(g[i]), redByte(g[i]), greenByte(g[i]), blueByte(g[i])>>

====
